---------------------------- MODULE Spec2Model ----------------------------
(***************************************************************************)
(* PharmaPulse (src/app.py): a Streamlit script.  Every user interaction   *)
(* reruns the script from the top.  Two specifications are given:          *)
(*                                                                         *)
(*   SpecData     one script run from the loaded dataset (line 161) to the *)
(*                numeric_for_plot list (line 217): column classification  *)
(*                and the Quick Filters loop, over all small datasets.     *)
(*   Spec         a session of script runs: upload, read, classification,  *)
(*                filters, chart files, PDF generation, share upload,      *)
(*                cleanup and reruns, over three fixed files.              *)
(***************************************************************************)
EXTENDS Integers, Sequences, FiniteSets

VARIABLES
    uploaded,          \* the file held by st.file_uploader (line 150)
    df,                \* the script's df: columns, dtypes and the index labels of its rows
    numeric_cols,      \* line 169
    categorical_cols,  \* line 170
    chosen,            \* the list the column multiselect of line 188 returned
    fi,                \* iterations of the Quick Filters loop completed
    filters,           \* lines 187/191, in insertion order: <<[col, sel], ...>>
    reported,          \* the row counts written by line 194 in this run
    numeric_for_plot,  \* lines 214-217
    pc,                \* position of the current script run
    clicked,           \* the button whose click started the current run
    last_pdf,          \* st.session_state: <<>> or <<id>>, the run that generated the PDF
    run,               \* number of the current script run
    chart_paths,       \* line 198 and the appends of lines 231-310
    disk,              \* temporary chart files that exist
    shown,             \* what the current run has displayed so far
    posts,             \* PDFs handed to requests.post so far in the session
    generated,         \* PDFs stored in session_state so far in the session
    stale,             \* buttons of the run before, still on the page
    completed,         \* runs that reached the end of the script
    load_failed        \* pd.read_excel has raised in some run of the session

vars == <<uploaded, df, numeric_cols, categorical_cols, chosen, fi, filters,
          reported, numeric_for_plot, pc, clicked, last_pdf, run,
          chart_paths, disk, shown, stale, posts, generated, completed,
          load_failed>>

---------------------------------------------------------------------------
(* Bounds and program constants *)

\* Rows of a sheet in SpecData.
MaxRows == 2

\* Script runs of a session in Spec.
MaxRuns == 4

\* max_selections of the column multiselect.
MaxSelections == 3

\* "few unique" threshold of the real_numeric loop.
LowCardinality == 10

\* Minimum number of numeric columns for the correlation heatmap.
HeatmapMinCols == 2

\* Minimum number of complete pairs for the scatter and line charts.
MinPairs == 3

---------------------------------------------------------------------------
(* Datasets *)

\* Column names, in sheet order (line 166 makes them strings).
ColumnNames == <<"A", "B">>

Cols == {ColumnNames[i] : i \in 1..Len(ColumnNames)}

\* Two distinct non-missing cell values of a column, and the missing marker.
Vals == {"x", "y"}

NaN == "NaN"

\* numpy dtype kinds read_excel produces: int64, float64, object, bool, datetime64.
Kinds == {"i", "f", "O", "b", "M"}

\* What the loader's type inference allows: int64 and bool columns hold no
\* missing cell; a column with no value at all is float64, unless the sheet
\* has no rows, where every column is object.
WellTyped(kind, column, n) ==
    IF n = 0 THEN kind = "O"
    ELSE /\ kind \in {"i", "b"} => \A i \in 1..n : column[i] # NaN
         /\ kind \in {"O", "M"} => \E i \in 1..n : column[i] # NaN

SheetsOfLen(n) ==
    { s \in [columns : {ColumnNames}, dtypes : [Cols -> Kinds],
             cells : [1..n -> [Cols -> Vals \cup {NaN}]]] :
        \A col \in Cols :
            WellTyped(s.dtypes[col], [i \in 1..n |-> s.cells[i][col]], n) }

Sheets == UNION { SheetsOfLen(n) : n \in 0..MaxRows }

NoSheet == [columns |-> <<>>, dtypes |-> <<>>, cells |-> <<>>]

NoDf == [columns |-> <<>>, dtypes |-> <<>>, index |-> <<>>]

NoFile == [present |-> FALSE, readable |-> FALSE, sheet |-> NoSheet]

BadFile == [present |-> TRUE, readable |-> FALSE, sheet |-> NoSheet]

GoodFile(sheet) == [present |-> TRUE, readable |-> TRUE, sheet |-> sheet]

\* The source dataset: the sheet of the uploaded file.
source == uploaded.sheet

Cell(i, col) == source.cells[i][col]

Range(s) == {s[i] : i \in 1..Len(s)}

\* pd.read_excel: the frame has the sheet's columns and dtypes and a RangeIndex.
ReadExcel(sheet) ==
    [columns |-> sheet.columns, dtypes |-> sheet.dtypes,
     index |-> [i \in 1..Len(sheet.cells) |-> i]]

---------------------------------------------------------------------------
(* Column classification, lines 165-173 *)

\* np.number: integer and floating dtypes (bool and datetime64 are not).
NumberKinds == {"i", "f"}

\* 'object' and 'category'.
ObjectKinds == {"O"}

\* df.select_dtypes(include=...).columns.tolist()
SelectDtypes(d, kinds) ==
    SelectSeq(d.columns, LAMBDA c : d.dtypes[c] \in kinds)

Classify ==
    /\ pc = "classify"
    /\ numeric_cols' = SelectDtypes(df, NumberKinds)
    /\ categorical_cols' = SelectDtypes(df, ObjectKinds)
    /\ shown' = shown \cup {"detected"}
    /\ pc' = "choose"
    /\ UNCHANGED <<uploaded, df, chosen, fi, filters, reported, numeric_for_plot,
                   clicked, last_pdf, run, chart_paths, disk, posts, generated,
                   completed, load_failed,
                   stale>>

---------------------------------------------------------------------------
(* Quick Filters, lines 185-194 *)

Min(a, b) == IF a < b THEN a ELSE b

\* What the column multiselect can return: distinct columns of df, in the
\* order the user picked them, at most max_selections of them.
ColumnChoices(d) ==
    { s \in UNION { [1..k -> Range(d.columns)] :
                      k \in 0..Min(MaxSelections, Len(d.columns)) } :
        \A i, j \in 1..Len(s) : i # j => s[i] # s[j] }

\* df[col].dropna().unique()
DropnaUnique(d, col) == {Cell(i, col) : i \in Range(d.index)} \ {NaN}

\* isin(sel) | isna(): a missing cell passes every filter.
IsInOrMissing(v, sel) == v \in sel \/ v = NaN

\* Series.isin(sel), for one cell.
IsIn(v, sel) == v \in sel

\* pd.concat of one slice per value: the rows come out grouped by value.
FilterGroupedByValue(d, col, sel) ==
    LET part(v) == IF v \in sel
                   THEN SelectSeq(d.index, LAMBDA i : Cell(i, col) = v)
                   ELSE <<>>
    IN [d EXCEPT !.index = part("y") \o part("x")]

\* The mask is taken by position, from the unfiltered frame.
FilterByPosition(d, col, sel) ==
    LET kept == SelectSeq([k \in 1..Len(d.index) |-> k],
                          LAMBDA k : IsIn(Cell(k, col), sel))
    IN [d EXCEPT !.index = [j \in 1..Len(kept) |-> d.index[kept[j]]]]

\* An empty selection is taken to mean "no filter".
FilterEmptyMeansAll(d, col, sel) ==
    IF sel = {} THEN d
    ELSE [d EXCEPT !.index = SelectSeq(d.index, LAMBDA i : IsIn(Cell(i, col), sel))]

\* df[df[col].isin(sel)]: boolean-mask selection of rows.
Filter(d, col, sel) ==
    [d EXCEPT !.index = SelectSeq(d.index, LAMBDA i : IsIn(Cell(i, col), sel))]

ChooseFilterColumns ==
    /\ pc = "choose"
    /\ \E s \in ColumnChoices(df) : chosen' = s
    /\ fi' = 0
    /\ filters' = <<>>
    /\ pc' = "filter"
    /\ UNCHANGED <<uploaded, df, numeric_cols, categorical_cols, reported,
                   numeric_for_plot, clicked, last_pdf, run, chart_paths, disk,
                   shown, posts, generated, completed, load_failed,
                   stale>>

\* One iteration of the loop: the value multiselect offers vals and returns a
\* subset of them (vals itself by default).
FilterStep ==
    /\ pc = "filter"
    /\ fi < Len(chosen)
    /\ LET col == chosen[fi + 1]
           vals == DropnaUnique(df, col)
       IN \E sel \in SUBSET vals :
             /\ filters' = Append(filters, [col |-> col, sel |-> sel])
             /\ df' = Filter(df, col, sel)
    /\ fi' = fi + 1
    /\ UNCHANGED <<uploaded, numeric_cols, categorical_cols, chosen, reported,
                   numeric_for_plot, pc, clicked, last_pdf, run, chart_paths,
                   disk, shown, posts, generated, completed, load_failed,
                   stale>>

\* Line 194, after the loop.
ReportRows ==
    /\ pc = "filter"
    /\ fi = Len(chosen)
    /\ reported' = Append(reported, Len(df.index))
    /\ shown' = shown \cup {"after_filters"}
    /\ pc' = "real_numeric"
    /\ UNCHANGED <<uploaded, df, numeric_cols, categorical_cols, chosen, fi,
                   filters, numeric_for_plot, clicked, last_pdf, run,
                   chart_paths, disk, posts, generated, completed, load_failed,
                   stale>>

---------------------------------------------------------------------------
(* real_numeric and numeric_for_plot, lines 205-217 *)

\* df[c].nunique(): distinct non-missing values.
Nunique(d, c) == Cardinality(DropnaUnique(d, c))

\* Line 209: an integer column with few distinct values.
FewUniqueIntegers(d, c) == Nunique(d, c) <= LowCardinality /\ d.dtypes[c] \in {"i"}

\* The flagged branch skips the column instead of passing.
AppendedUnlessFlagged(d, c) == ~FewUniqueIntegers(d, c)

\* Lines 209-212: the flagged branch is "pass"; c is appended either way.
Appended(d, c) == IF FewUniqueIntegers(d, c) THEN TRUE ELSE TRUE

RealNumericList(d, cols) == SelectSeq(cols, LAMBDA c : Appended(d, c))

RealNumeric ==
    /\ pc = "real_numeric"
    /\ LET real_numeric == RealNumericList(df, numeric_cols)
       IN numeric_for_plot' = IF real_numeric # <<>> THEN real_numeric
                              ELSE numeric_cols
    /\ pc' = "visualize"
    /\ UNCHANGED <<uploaded, df, numeric_cols, categorical_cols, chosen, fi,
                   filters, reported, clicked, last_pdf, run, chart_paths, disk,
                   shown, posts, generated, completed, load_failed,
                   stale>>

---------------------------------------------------------------------------
(* SpecData: one run from the loaded dataset to numeric_for_plot *)

InitData ==
    /\ \E sheet \in Sheets :
          /\ uploaded = GoodFile(sheet)
          /\ df = ReadExcel(sheet)
    /\ numeric_cols = <<>>
    /\ categorical_cols = <<>>
    /\ chosen = <<>>
    /\ fi = 0
    /\ filters = <<>>
    /\ reported = <<>>
    /\ numeric_for_plot = <<>>
    /\ pc = "classify"
    /\ clicked = "none"
    /\ last_pdf = <<>>
    /\ run = 1
    /\ chart_paths = <<>>
    /\ disk = {}
    /\ shown = {"loaded", "preview"}
    /\ stale = {}
    /\ posts = <<>>
    /\ generated = {}
    /\ completed = {}
    /\ load_failed = FALSE

NextData ==
    \/ Classify
    \/ ChooseFilterColumns
    \/ FilterStep
    \/ ReportRows
    \/ RealNumeric

SpecData == InitData /\ [][NextData]_vars

---------------------------------------------------------------------------
(* Spec: a session of script runs *)

\* The files the user uploads in Spec: one that pd.read_excel cannot read,
\* and two readable sheets of three rows.  MixedSheet has a float column with
\* a missing cell and a text column (bar, box, histogram, pictogram and pie
\* charts); NumericSheet has an integer and a float column (heatmap, scatter
\* and line charts).
MixedSheet ==
    [columns |-> ColumnNames,
     dtypes |-> [c \in Cols |-> IF c = "A" THEN "f" ELSE "O"],
     cells |-> << [c \in Cols |-> "x"],
                  [c \in Cols |-> "x"],
                  [c \in Cols |-> IF c = "A" THEN NaN ELSE "x"] >>]

NumericSheet ==
    [columns |-> ColumnNames,
     dtypes |-> [c \in Cols |-> IF c = "A" THEN "i" ELSE "f"],
     cells |-> << [c \in Cols |-> "x"],
                  [c \in Cols |-> "x"],
                  [c \in Cols |-> IF c = "A" THEN "x" ELSE NaN] >>]

SessionFiles == {BadFile, GoodFile(MixedSheet), GoodFile(NumericSheet)}

Buttons == {"generate_button", "share_button"}

\* The buttons on the page: those the current run has drawn, and those of the
\* run before that the current run has not reached yet.
OnPage == (shown \cap Buttons) \cup stale

\* A user event starts a new run at line 1, whether the current run is over
\* or not (a running script is stopped at its next st call).  None of the
\* script's variables exists yet; session_state, the uploader's file and the
\* files on disk are kept.
BeginRun ==
    /\ run < MaxRuns
    /\ stale' = OnPage
    /\ run' = run + 1
    /\ pc' = "start"
    /\ df' = NoDf
    /\ numeric_cols' = <<>>
    /\ categorical_cols' = <<>>
    /\ chosen' = <<>>
    /\ fi' = 0
    /\ filters' = <<>>
    /\ reported' = <<>>
    /\ numeric_for_plot' = <<>>
    /\ chart_paths' = <<>>
    /\ shown' = {}
    /\ UNCHANGED <<last_pdf, disk, posts, generated, completed, load_failed>>

\* The user puts a file into the uploader, replaces it or removes it.
UploadFile ==
    /\ \E f \in SessionFiles \cup {NoFile} :
          /\ f # uploaded
          /\ uploaded' = f
    /\ clicked' = "none"
    /\ BeginRun

\* The user changes any other widget, or asks for a rerun.
Rerun ==
    /\ clicked' = "none"
    /\ UNCHANGED uploaded
    /\ BeginRun

\* A button can be clicked while it is on the page.
ClickGenerate ==
    /\ "generate_button" \in OnPage
    /\ clicked' = "generate"
    /\ UNCHANGED uploaded
    /\ BeginRun

ClickShare ==
    /\ "share_button" \in OnPage
    /\ clicked' = "share"
    /\ UNCHANGED uploaded
    /\ BeginRun

\* Lines 150-153.
CheckUpload ==
    /\ pc = "start"
    /\ IF uploaded.present
       THEN pc' = "read" /\ UNCHANGED <<shown, stale>>
       ELSE pc' = "stopped" /\ shown' = shown \cup {"info_upload"} /\ stale' = {}
    /\ UNCHANGED <<uploaded, df, numeric_cols, categorical_cols, chosen, fi,
                   filters, reported, numeric_for_plot, clicked, last_pdf, run,
                   chart_paths, disk, posts, generated, completed, load_failed>>

\* Without st.stop() the script runs on.
AfterReadErrorContinue == "classify"

\* Where the run goes after st.error of line 158: st.stop() ends it.
AfterReadError == "stopped"

\* Lines 155-163.
ReadFile ==
    /\ pc = "read"
    /\ IF uploaded.readable
       THEN /\ df' = ReadExcel(uploaded.sheet)
            /\ shown' = shown \cup {"loaded", "preview"}
            /\ pc' = "classify"
            /\ UNCHANGED <<load_failed, stale>>
       ELSE /\ shown' = shown \cup {"error_read"}
            /\ load_failed' = TRUE
            /\ pc' = AfterReadError
            /\ stale' = {}
            /\ UNCHANGED df
    /\ UNCHANGED <<uploaded, numeric_cols, categorical_cols, chosen, fi, filters,
                   reported, numeric_for_plot, clicked, last_pdf, run,
                   chart_paths, disk, posts, generated, completed>>

\* The sidebar selectboxes of lines 180-183: None or a column of the list.
None == "None"

Options(cols) == {None} \cup Range(cols)

\* len(df[[x, y]].dropna())
CompletePairs(d, x, y) ==
    Cardinality({i \in Range(d.index) : Cell(i, x) # NaN /\ Cell(i, y) # NaN})

\* Number of save_fig_temp calls of lines 224-310 for the sidebar selection.
PlannedCharts(num, cat, x, y) ==
    (IF Len(numeric_for_plot) >= HeatmapMinCols THEN 1 ELSE 0)
    + (IF num # None /\ cat # None THEN 4 ELSE 0)
    + (IF x # None /\ y # None /\ CompletePairs(df, x, y) >= MinPairs THEN 2 ELSE 0)
    + (IF cat # None THEN 1 ELSE 0)

\* save_fig_temp: the k-th temporary file of this run.
TempFile(k) == [run |-> run, n |-> k]

\* Lines 222-310.  The sidebar selection is read here, where it is first
\* used.  The charts are made in order.  An exception in a chart block ends
\* the run, and a rerun request stops it at the next st.pyplot; either way the
\* files made so far stay on disk (and, as after a rerun request, the buttons
\* of the run before are taken to be still on the page).
Visualize ==
    /\ pc = "visualize"
    /\ \E num \in Options(numeric_cols), cat \in Options(categorical_cols),
          x \in Options(numeric_cols), y \in Options(numeric_cols) :
          \E made \in 0..PlannedCharts(num, cat, x, y) :
             /\ chart_paths' = [k \in 1..made |-> TempFile(k)]
             /\ disk' = disk \cup {TempFile(k) : k \in 1..made}
             /\ pc' = IF made = PlannedCharts(num, cat, x, y)
                      THEN "tests" ELSE "aborted"
    /\ UNCHANGED <<uploaded, df, numeric_cols, categorical_cols, chosen, fi,
                   filters, reported, numeric_for_plot, clicked, last_pdf, run,
                   shown, stale, posts, generated, completed, load_failed>>

\* Lines 312-384: the tests write results_lines; a test that raises aborts
\* the run.
Tests ==
    /\ pc = "tests"
    /\ \/ /\ pc' = "display"
          /\ shown' = shown \cup {"results", "conclusion"}
          /\ UNCHANGED stale
       \/ /\ pc' = "aborted"
          /\ stale' = {}
          /\ UNCHANGED shown
    /\ UNCHANGED <<uploaded, df, numeric_cols, categorical_cols, chosen, fi,
                   filters, reported, numeric_for_plot, clicked, last_pdf, run,
                   chart_paths, disk, posts, generated, completed, load_failed>>

\* Lines 386-390: st.image reads every chart file.
Display ==
    /\ pc = "display"
    /\ IF Range(chart_paths) \subseteq disk
       THEN /\ pc' = "report"
            /\ shown' = IF chart_paths # <<>> THEN shown \cup {"charts"} ELSE shown
            /\ UNCHANGED stale
       ELSE pc' = "aborted" /\ stale' = {} /\ UNCHANGED shown
    /\ UNCHANGED <<uploaded, df, numeric_cols, categorical_cols, chosen, fi,
                   filters, reported, numeric_for_plot, clicked, last_pdf, run,
                   chart_paths, disk, posts, generated, completed, load_failed>>

\* The assignment of line 401 placed after the try block.
StoredAfterFailureAnyway == <<run>>

\* session_state['last_pdf'] after the except branch of line 402.
StoredAfterFailure == last_pdf

\* Lines 395-403.  pdf_bytes_from_parts returns or raises.
GeneratePdf ==
    /\ pc = "report"
    /\ IF clicked = "generate"
       THEN \/ /\ last_pdf' = <<run>>
               /\ generated' = generated \cup {run}
               /\ shown' = shown \cup {"generate_button", "pdf_ok"}
            \/ /\ last_pdf' = StoredAfterFailure
               /\ shown' = shown \cup {"generate_button", "pdf_failed"}
               /\ UNCHANGED generated
       ELSE /\ shown' = shown \cup {"generate_button"}
            /\ UNCHANGED <<last_pdf, generated>>
    /\ pc' = "download"
    /\ UNCHANGED <<uploaded, df, numeric_cols, categorical_cols, chosen, fi,
                   filters, reported, numeric_for_plot, clicked, run,
                   chart_paths, disk, posts, completed, load_failed,
                   stale>>

\* Lines 405-408.
Download ==
    /\ pc = "download"
    /\ shown' = IF last_pdf # <<>> THEN shown \cup {"download_button"} ELSE shown
    /\ pc' = "share"
    /\ UNCHANGED <<uploaded, df, numeric_cols, categorical_cols, chosen, fi,
                   filters, reported, numeric_for_plot, clicked, last_pdf, run,
                   chart_paths, disk, posts, generated, completed, load_failed,
                   stale>>

\* What requests.post can lead to: a link, a refusal, an exception.
UploadOutcomes == {"share_link", "upload_failed", "upload_error"}

\* Lines 410-431.
Share ==
    /\ pc = "share"
    /\ IF clicked = "share"
       THEN IF last_pdf = <<>>
            THEN /\ shown' = shown \cup {"share_button", "warn_generate_first"}
                 /\ UNCHANGED posts
            ELSE /\ posts' = Append(posts, [pdf |-> last_pdf[1], at |-> run])
                 /\ \E o \in UploadOutcomes :
                       shown' = shown \cup {"share_button", o}
       ELSE /\ shown' = shown \cup {"share_button"}
            /\ UNCHANGED posts
    /\ pc' = "cleanup"
    /\ UNCHANGED <<uploaded, df, numeric_cols, categorical_cols, chosen, fi,
                   filters, reported, numeric_for_plot, clicked, last_pdf, run,
                   chart_paths, disk, generated, completed, load_failed,
                   stale>>

\* cleanup never called.
RemovedNone(paths) == {}

\* cleanup(paths): every path that exists is removed.
Removed(paths) == {p \in Range(paths) : p \in disk}

\* Lines 433-442.
Cleanup ==
    /\ pc = "cleanup"
    /\ disk' = disk \ Removed(chart_paths)
    /\ completed' = completed \cup {run}
    /\ pc' = "ended"
    /\ stale' = {}
    /\ UNCHANGED <<uploaded, df, numeric_cols, categorical_cols, chosen, fi,
                   filters, reported, numeric_for_plot, clicked, last_pdf, run,
                   chart_paths, shown, posts, generated, load_failed>>

\* The first run of a session: no file has been uploaded.
Init ==
    /\ uploaded = NoFile
    /\ df = NoDf
    /\ numeric_cols = <<>>
    /\ categorical_cols = <<>>
    /\ chosen = <<>>
    /\ fi = 0
    /\ filters = <<>>
    /\ reported = <<>>
    /\ numeric_for_plot = <<>>
    /\ pc = "start"
    /\ clicked = "none"
    /\ last_pdf = <<>>
    /\ run = 1
    /\ chart_paths = <<>>
    /\ disk = {}
    /\ shown = {}
    /\ stale = {}
    /\ posts = <<>>
    /\ generated = {}
    /\ completed = {}
    /\ load_failed = FALSE

Next ==
    \/ UploadFile
    \/ Rerun
    \/ ClickGenerate
    \/ ClickShare
    \/ CheckUpload
    \/ ReadFile
    \/ Classify
    \/ ChooseFilterColumns
    \/ FilterStep
    \/ ReportRows
    \/ RealNumeric
    \/ Visualize
    \/ Tests
    \/ Display
    \/ GeneratePdf
    \/ Download
    \/ Share
    \/ Cleanup

Spec == Init /\ [][Next]_vars

---------------------------------------------------------------------------
(* Properties of classification and filtering, checked under SpecData *)

\* The frame as loaded, before any filter.
Loaded == ReadExcel(source)

\* Row i of the source has, in the column of every filter applied so far, a
\* cell that belongs to that filter's selected set.
Satisfies(i) ==
    \A k \in 1..Len(filters) : Cell(i, filters[k].col) \in filters[k].sel

LoopDone == pc \in {"real_numeric", "visualize"}

\* C1: the working dataset holds exactly the source rows whose cell in every
\* filtered column is a member of that column's selected set (AND across
\* columns, membership within a column); this holds after each iteration and
\* for the result of the loop.
C1_FilterExact ==
    pc \in {"filter", "real_numeric", "visualize"} =>
        Range(df.index) = {i \in Range(Loaded.index) : Satisfies(i)}

C1_Witness ==
    /\ LoopDone
    /\ Len(filters) = 2
    /\ \A k \in 1..2 : filters[k].sel # {}
    /\ Len(df.index) > 0
    /\ Len(df.index) < Len(Loaded.index)

\* C2: a filter step whose selection is the full set of the column's own
\* distinct values (the widget's default) leaves the working dataset as it was.
C2_DefaultSelectionKeepsRows ==
    [][(/\ pc = "filter"
        /\ fi' = fi + 1
        /\ filters'[fi'].sel = DropnaUnique(df, filters'[fi'].col))
       => df' = df]_vars

\* C3: once classified, numeric_cols and categorical_cols are disjoint and
\* together hold every column of the dataset.
C3_ClassificationPartition ==
    pc \in {"choose", "filter", "real_numeric", "visualize"} =>
        /\ Range(numeric_cols) \cap Range(categorical_cols) = {}
        /\ Range(numeric_cols) \cup Range(categorical_cols) = Range(df.columns)

\* C4: the rows of the working dataset are a subsequence of the source rows:
\* every index label is a source row, and the labels are strictly increasing
\* (nothing added, duplicated or reordered).
C4_RowOrderPreserved ==
    pc \in {"filter", "real_numeric", "visualize"} =>
        /\ \A k \in 1..Len(df.index) : df.index[k] \in Range(Loaded.index)
        /\ \A j, k \in 1..Len(df.index) : j < k => df.index[j] < df.index[k]

C4_Witness ==
    /\ LoopDone
    /\ Len(filters) = 2
    /\ \A k \in 1..2 : filters[k].sel # Vals
    /\ df.index = <<1, 2>>

\* C5: filtering changes rows only: after the loop and the real_numeric pass,
\* df has the columns and dtypes of the source, numeric_cols and
\* categorical_cols are the load-time classification, and numeric_for_plot
\* is numeric_cols.
C5_ClassificationStable ==
    pc = "visualize" =>
        /\ df.columns = source.columns
        /\ df.dtypes = source.dtypes
        /\ numeric_cols = SelectDtypes(Loaded, NumberKinds)
        /\ categorical_cols = SelectDtypes(Loaded, ObjectKinds)
        /\ numeric_for_plot = numeric_cols

C5_Witness ==
    /\ pc = "visualize"
    /\ filters # <<>>
    /\ Len(df.index) < Len(Loaded.index)
    /\ \E c \in Range(numeric_cols) :
          /\ FewUniqueIntegers(df, c)
          /\ Nunique(df, c) < Nunique(Loaded, c)

\* C6: two filters on different columns give the same working dataset in
\* either order, and it is the intersection of the rows each filter keeps
\* when applied alone to the source.
C6_OrderIndependent ==
    (LoopDone /\ Len(filters) = 2) =>
        LET f == filters[1]
            g == filters[2]
        IN /\ df = Filter(Filter(Loaded, g.col, g.sel), f.col, f.sel)
           /\ Range(df.index) =
                 {i \in Range(Loaded.index) : Cell(i, f.col) \in f.sel}
                 \cap {i \in Range(Loaded.index) : Cell(i, g.col) \in g.sel}

C6_Witness ==
    /\ LoopDone
    /\ Len(filters) = 2
    /\ filters[1].col # filters[2].col
    /\ Len(df.index) > 0
    /\ Len(Filter(Loaded, filters[2].col, filters[2].sel).index) < Len(Loaded.index)
    /\ Len(Filter(Loaded, filters[1].col, filters[1].sel).index) < Len(Loaded.index)

\* C7: an empty selected set leaves zero rows whatever the other filters are,
\* and the run goes on to report the count 0.
C7_EmptySelectionZeroRows ==
    (\E k \in 1..Len(filters) : filters[k].sel = {}) =>
        /\ pc \in {"filter", "real_numeric", "visualize"}
        /\ df.index = <<>>
        /\ LoopDone => reported = <<0>>

C7_Witness ==
    /\ LoopDone
    /\ Len(filters) = 2
    /\ filters[1].sel # {}
    /\ filters[2].sel = {}
    /\ Loaded.index # <<>>
    /\ reported = <<0>>

---------------------------------------------------------------------------
(* Properties of a session, checked under Spec *)

\* What a run shows or does from line 161 on.
Processing ==
    {"loaded", "preview", "detected", "after_filters", "results", "conclusion",
     "charts", "generate_button", "pdf_ok", "pdf_failed", "download_button",
     "share_button", "warn_generate_first"} \cup UploadOutcomes

\* C8 (as amended): in a run where reading the uploaded file fails, the error
\* is shown and the run stops there: no dataset is bound, nothing is
\* classified, filtered, charted or reported, no PDF is stored and no upload
\* is made in that run.
C8_ReadFailureStopsRun ==
    "error_read" \in shown =>
        /\ pc = "stopped"
        /\ shown \cap Processing = {}
        /\ df = NoDf
        /\ numeric_cols = <<>> /\ categorical_cols = <<>>
        /\ filters = <<>> /\ reported = <<>>
        /\ chart_paths = <<>>
        /\ last_pdf # <<run>>
        /\ \A k \in 1..Len(posts) : posts[k].at # run

\* A read failure in a session that already holds a PDF: the run stops before
\* the download and share buttons.
C8_Witness ==
    /\ "error_read" \in shown
    /\ pc = "stopped"
    /\ last_pdf # <<>>

\* C8 (as claimed): once reading an uploaded file has failed, nothing is
\* processed for the rest of the session.
C8_ReadFailureEndsSession ==
    load_failed =>
        /\ pc \in {"start", "read", "stopped"}
        /\ df = NoDf
        /\ shown \cap Processing = {}

\* C9: every upload hands over a PDF that an earlier run generated and
\* stored; the stored PDF is always a generated one; "Create Share Link"
\* without a stored PDF warns and uploads nothing; a failed generation leaves
\* session_state['last_pdf'] as it was.
C9_UploadOnlyOfStoredPdf ==
    /\ [](/\ \A k \in 1..Len(posts) :
               posts[k].pdf \in generated /\ posts[k].pdf < posts[k].at
          /\ last_pdf # <<>> => last_pdf[1] \in generated
          /\ "warn_generate_first" \in shown =>
               /\ last_pdf = <<>>
               /\ \A k \in 1..Len(posts) : posts[k].at # run
          /\ (shown \cap UploadOutcomes # {}) =>
               \E k \in 1..Len(posts) : posts[k].at = run)
    /\ [][("pdf_failed" \in shown' /\ "pdf_failed" \notin shown)
             => last_pdf' = last_pdf]_vars
    /\ [][posts' # posts =>
             /\ last_pdf # <<>>
             /\ posts' = Append(posts, [pdf |-> last_pdf[1], at |-> run])]_vars

\* A PDF was generated in one run and uploaded in a later one.
C9_Witness ==
    /\ pc = "ended"
    /\ posts # <<>>
    /\ "share_link" \in shown

===========================================================================
